---- MODULE Spec2Model ----
(***************************************************************************)
(* ShelfSense: the in-memory store (MemStorage, src/server/storage.ts) as  *)
(* it is driven by the request layer (registerRoutes, src/unnamed/part_000)*)
(*                                                                         *)
(* Conventions                                                             *)
(*  - An optional column (null / undefined in the code) is a sequence of   *)
(*    length 0 or 1: None == <<>>, Some(v) == <<v>>.                       *)
(*  - Decimal strings ("25.00") are integers counted in hundredths (2500). *)
(*  - A Map keyed by randomUUID() keeps insertion order and never meets a  *)
(*    key twice: products are keyed by a fresh number, movements and       *)
(*    transactions are sequences in insertion order.                       *)
(*  - An async method runs synchronously up to its first await; every      *)
(*    await is a point where other calls of the same process may run.      *)
(*  - A Date is a whole number of days: the time of day is not modelled.   *)
(*    The clock also knows the day the current calendar month began.       *)
(***************************************************************************)
EXTENDS Integers, Sequences, FiniteSets, TLC

VARIABLES
    products,            \* MemStorage.products: id -> Product
    inventoryMovements,  \* MemStorage.inventoryMovements, in insertion order
    transactions,        \* MemStorage.transactions, in insertion order
    transactionCounter,  \* MemStorage.transactionCounter
    nextProductId,       \* the next fresh key randomUUID() hands to createProduct
    calls,               \* createTransaction calls suspended at an await
    resp,                \* outcome of the operation that ran last
    createdStock,        \* history: id -> the stock column the product was created with
    directlyWritten,     \* history: ids whose stock column updateProduct has changed
    started,             \* history: transactionNumbers in the order the calls started
    categories,          \* MemStorage.categories, in insertion order
    shopSettings,        \* MemStorage.shopSettings
    now,                 \* the clock: what `new Date()` returns
    reads,               \* getSalesAnalytics calls suspended at an await
    report,              \* what the read or chat operation that ran last returned
    queue,               \* the browser's localStorage entry 'offline_queue'
    syncInProgress,      \* OfflineSyncManager.syncInProgress
    online,              \* navigator.onLine
    runs,                \* syncPendingOperations calls suspended at their fetch
    msNow,               \* Date.now() in the browser, in milliseconds
    added,               \* history: how many operations addToQueue has queued
    cart,                \* Billing's cart state
    event                \* what the browser did last

vars == <<products, inventoryMovements, transactions, transactionCounter,
          nextProductId, calls, resp, createdStock, directlyWritten, started,
          categories, shopSettings, now, reads, report,
          queue, syncInProgress, online, runs, msNow, added, cart, event>>

\* the browser's state, which no operation of the server touches
clientSide == <<queue, syncInProgress, online, runs, msNow, added, cart, event>>

\* the state the ledger and catalog operations of this module never touch
readSide == <<categories, shopSettings, now, reads>>

\* `report` after an operation whose result is held in `resp` alone
NoReport == [op |-> "none"]

-----------------------------------------------------------------------------
(* Bounds of the exploration *)

\* records one run may add in all: movements, createTransaction calls started
\* and products created
MaxRecords == 4

-----------------------------------------------------------------------------
(* Optional values and JavaScript's falsy default *)

None == <<>>

Some(v) == <<v>>

\* `x || d` for a nullable integer column: null, undefined and 0 give d
OrElse(x, d) == IF x = None \/ x = Some(0) THEN d ELSE x[1]

Max(a, b) == IF a >= b THEN a ELSE b

Abs(n) == IF n < 0 THEN -n ELSE n

-----------------------------------------------------------------------------
(* seedData *)

SeedStockCocaCola == 45
SeedStockMaggi == 8
SeedStockColgate == 3
SeedStockBritannia == 38

\* expiryDate is `days` days after the store is constructed (on day 0)
SeedProduct(barcode, price, costPrice, category, stock, minStock, days) ==
    [barcode |-> Some(barcode), price |-> price, costPrice |-> Some(costPrice),
     category |-> category, stock |-> Some(stock), minStock |-> Some(minStock),
     isActive |-> Some(TRUE), expiryDate |-> Some(days)]

SeedProducts ==
    <<SeedProduct("8901030001234", 2500, 2000, "Beverages", SeedStockCocaCola, 10, 90),
      SeedProduct("8901030002345", 1200, 1000, "Snacks", SeedStockMaggi, 10, 180),
      SeedProduct("8901030003456", 4500, 3500, "Personal Care", SeedStockColgate, 5, 365),
      SeedProduct("8901030004567", 2000, 1500, "Snacks", SeedStockBritannia, 10, 60)>>

SeedCategories ==
    <<[name |-> "Beverages", isActive |-> Some(TRUE)],
      [name |-> "Snacks", isActive |-> Some(TRUE)],
      [name |-> "Personal Care", isActive |-> Some(TRUE)]>>

SeedShopSettings == [shopName |-> "Ramesh General Store", isOfflineMode |-> Some(FALSE)]

-----------------------------------------------------------------------------
(* Inputs the request layer passes on *)

\* ids the operations are called with: the Colgate seed, and the id of the
\* first product created after the seeds, which resolves to no product
\* before that product is created and after it is deleted
ProductIdInputs == {3, Len(SeedProducts) + 1}

\* ids PUT /api/products/:id and DELETE /api/products/:id are called with
UpdateIdInputs == {3}

DeleteIdInputs == {Len(SeedProducts) + 1}


\* POST /api/products/:id/stock accepts every number
QuantityInputs == {-4, 0, 2}

\* insertProductSchema: stock is an optional nullable integer of either sign
InsertProduct(stock) ==
    [barcode |-> None, price |-> 1000, costPrice |-> None, category |-> "Snacks",
     stock |-> stock, minStock |-> None, isActive |-> None, expiryDate |-> None]

InsertProductInputs == {InsertProduct(Some(-2))}

\* insertProductSchema.partial(): any subset of the columns
UpdateDataInputs == {[stock |-> Some(1)]}

Item(productId, price, quantity) ==
    [productId |-> productId, price |-> price, quantity |-> quantity]

\* insertTransactionSchema: items is any JSON value, totalAmount and discount
\* are any decimal strings
InsertTransaction(items, totalAmount, discount) ==
    [items |-> items, totalAmount |-> totalAmount, discount |-> discount]

InsertTransactionInputs ==
    {InsertTransaction(<<Item(3, 1000, 2), Item(3, 500, 1)>>, 2200, 300),
     InsertTransaction(<<Item(3, 4500, 1), Item(5, 1000, 1)>>, 9900, 0),
     InsertTransaction(<<>>, 0, 0),
     InsertTransaction(<<Item(3, 4500, -1)>>, 0, 0)}

-----------------------------------------------------------------------------
(* `TXN${String(n).padStart(4, '0')}`: strings are sequences of characters *)

DigitChars == <<"0", "1", "2", "3", "4", "5", "6", "7", "8", "9">>

\* String(n) for a natural number n
RECURSIVE String(_)
String(n) ==
    IF n < 10 THEN <<DigitChars[n + 1]>>
    ELSE String(n \div 10) \o <<DigitChars[(n % 10) + 1]>>

\* s.padStart(targetLength, padString) for a one-character padString
RECURSIVE padStart(_, _, _)
padStart(s, targetLength, padString) ==
    IF Len(s) >= targetLength THEN s
    ELSE padStart(<<padString>> \o s, targetLength, padString)

transactionNumberOf(counter) == <<"T", "X", "N">> \o padStart(String(counter), 4, "0")

\* faulty variant: the counter is read but never advanced
counterAfter_notAdvanced(counter) == counter

\* transactionCounter++ : the value the counter holds afterwards
counterAfter_twice(counter) == counter + 2

counterAfter(counter) == counter + 1

-----------------------------------------------------------------------------
(* updateStock, the synchronous body (storage.ts 233-261) *)

\* map.get(key): the value, or undefined
mapGet(map, key) == IF key \in DOMAIN map THEN Some(map[key]) ELSE None

\* map.set(key, value)
mapSet(map, key, value) ==
    [k \in DOMAIN map \cup {key} |-> IF k = key THEN value ELSE map[k]]

\* faulty variant: an unknown id gets a blank product instead of undefined
productOf_orBlank(prods, productId) ==
    IF productId \in DOMAIN prods THEN Some(prods[productId]) ELSE Some(InsertProduct(None))

\* const product = this.products.get(productId)
productOf(prods, productId) == mapGet(prods, productId)

\* if (!product) throw new Error("Product not found")
updateStockThrows(prods, productId) == productOf(prods, productId) = None

\* faulty variant: the stock is read from a copy taken when the product was
\* created, not from the map
previousStockOf_stale(prods, productId) == OrElse(createdStock[productId], 0)

\* const previousStock = product.stock || 0
previousStockOf(prods, productId) == OrElse(productOf(prods, productId)[1].stock, 0)

\* const newStock = Math.max(0, previousStock + quantity)
newStockOf_unclamped(previousStock, quantity) == previousStock + quantity

newStockOf(previousStock, quantity) == Max(0, previousStock + quantity)

\* faulty variant: quantity >= 0 ? "purchase" : "sale"
movementTypeOf_zeroIsPurchase(quantity) == IF quantity >= 0 THEN "purchase" ELSE "sale"

\* type: quantity > 0 ? "purchase" : "sale"
movementTypeOf(quantity) == IF quantity > 0 THEN "purchase" ELSE "sale"

\* faulty variant: the signed quantity is stored
movementQuantityOf_signed(quantity) == quantity

\* quantity: Math.abs(quantity)
movementQuantityOf(quantity) == Abs(quantity)

\* the InventoryMovement record the method builds
movementOf(prods, productId, quantity) ==
    LET previousStock == previousStockOf(prods, productId)
    IN  [productId |-> productId,
         type |-> movementTypeOf(quantity),
         quantity |-> movementQuantityOf(quantity),
         previousStock |-> previousStock,
         newStock |-> newStockOf(previousStock, quantity),
         reason |-> IF quantity > 0 THEN "Stock added" ELSE "Sale"]

\* this.products.set(productId, {...product, stock: newStock})
productsAfterUpdateStock(prods, productId, quantity) ==
    mapSet(prods, productId,
           [productOf(prods, productId)[1] EXCEPT !.stock =
               Some(newStockOf(previousStockOf(prods, productId), quantity))])

\* this.inventoryMovements.set(movement.id, movement)
movementsAfterUpdateStock(prods, movs, productId, quantity) ==
    Append(movs, movementOf(prods, productId, quantity))

\* getInventoryMovements(productId): the movements of one product, in
\* insertion order
getInventoryMovements(movs, productId) ==
    SelectSeq(movs, LAMBDA m : m.productId = productId)

-----------------------------------------------------------------------------
(* Billing checkout (part_004 568-575): the total the client sends *)

\* cart.reduce((total, item) => total + price * quantity, 0)
RECURSIVE calculateSubtotal(_)
calculateSubtotal(items) ==
    IF items = <<>> THEN 0
    ELSE calculateSubtotal(SubSeq(items, 1, Len(items) - 1))
            + items[Len(items)].price * items[Len(items)].quantity

\* Math.max(0, subtotal - discount)
calculateTotal(items, discount) == Max(0, calculateSubtotal(items) - discount)

-----------------------------------------------------------------------------
(* Responses: what the operation that ran last was and how it ended; a    *)
(* response about no product or quantity carries 0 there                   *)

Response(op, ok, productId, quantity, applied) ==
    [op |-> op, ok |-> ok, productId |-> productId, quantity |-> quantity,
     applied |-> applied]

-----------------------------------------------------------------------------
(* The state after `new MemStorage()` *)

\* how many records a run has added so far
Records(movs, startedCalls, nextId) ==
    Len(movs) + Len(startedCalls) + (nextId - (Len(SeedProducts) + 1))
        + (Len(categories) - Len(SeedCategories)) + now.day + Len(reads)

WithinBounds(movs, startedCalls, nextId) == Records(movs, startedCalls, nextId) <= MaxRecords

Init ==
    /\ products = [id \in 1 .. Len(SeedProducts) |-> SeedProducts[id]]
    /\ inventoryMovements = <<>>
    /\ transactions = <<>>
    /\ transactionCounter = 1
    /\ nextProductId = Len(SeedProducts) + 1
    /\ calls = <<>>
    /\ resp = Response("new", TRUE, 0, 0, 0)
    /\ createdStock = [id \in 1 .. Len(SeedProducts) |-> SeedProducts[id].stock]
    /\ directlyWritten = {}
    /\ started = <<>>
    /\ categories = SeedCategories
    /\ shopSettings = SeedShopSettings
    /\ now = [day |-> 0, monthStart |-> 0, utcDay |-> 0]
    /\ reads = <<>>
    /\ report = NoReport
    /\ queue = <<>>
    /\ syncInProgress = FALSE
    /\ online = TRUE
    /\ runs = <<>>
    /\ msNow = 0
    /\ added = 0
    /\ cart = <<>>
    /\ event = [op |-> "load", outcome |-> "", item |-> 0, sent |-> 0]

-----------------------------------------------------------------------------
(* Catalog operations *)

\* POST /api/products -> createProduct: {...insertProduct, id: randomUUID()}
createProduct(insertProduct) ==
    /\ WithinBounds(inventoryMovements, started, nextProductId + 1)
    /\ products' = mapSet(products, nextProductId, insertProduct)
    /\ nextProductId' = nextProductId + 1
    /\ createdStock' = mapSet(createdStock, nextProductId, insertProduct.stock)
    /\ resp' = Response("createProduct", TRUE, 0, 0, 0)
    /\ UNCHANGED <<inventoryMovements, transactions, transactionCounter, calls,
                   directlyWritten, started, readSide, clientSide>>
    /\ report' = NoReport

\* {...existing, ...updateData}: the columns updateData carries replace existing's
spread(existing, updateData) ==
    [column \in DOMAIN existing |->
        IF column \in DOMAIN updateData THEN updateData[column] ELSE existing[column]]

\* PUT /api/products/:id -> updateProduct
updateProduct(id, updateData) ==
    IF mapGet(products, id) = None
    THEN /\ resp' = Response("updateProduct", FALSE, 0, 0, 0)
         /\ UNCHANGED <<products, inventoryMovements, transactions, transactionCounter,
                        nextProductId, calls, createdStock, directlyWritten, started, readSide, clientSide>>
         /\ report' = NoReport
    ELSE /\ products' = mapSet(products, id, spread(mapGet(products, id)[1], updateData))
         /\ directlyWritten' =
                IF products'[id].stock # products[id].stock
                THEN directlyWritten \cup {id} ELSE directlyWritten
         /\ resp' = Response("updateProduct", TRUE, 0, 0, 0)
         /\ UNCHANGED <<inventoryMovements, transactions, transactionCounter,
                        nextProductId, calls, createdStock, started, readSide, clientSide>>
         /\ report' = NoReport

\* DELETE /api/products/:id -> deleteProduct: products.delete(id), never throws
deleteProduct_cascade(id) ==
    /\ products' = [p \in DOMAIN products \ {id} |-> products[p]]
    /\ inventoryMovements' = SelectSeq(inventoryMovements, LAMBDA m : m.productId # id)
    /\ resp' = Response("deleteProduct", TRUE, 0, 0, 0)
    /\ UNCHANGED <<transactions, transactionCounter,
                   nextProductId, calls, createdStock, directlyWritten, started, readSide, clientSide>>
    /\ report' = NoReport

deleteProduct(id) ==
    /\ products' = [p \in DOMAIN products \ {id} |-> products[p]]
    /\ resp' = Response("deleteProduct", TRUE, 0, 0, 0)
    /\ UNCHANGED <<inventoryMovements, transactions, transactionCounter,
                   nextProductId, calls, createdStock, directlyWritten, started, readSide, clientSide>>
    /\ report' = NoReport

-----------------------------------------------------------------------------
(* Stock ledger *)

\* POST /api/products/:id/stock -> updateStock(productId, quantity)
updateStock(productId, quantity) ==
    IF updateStockThrows(products, productId)
    THEN /\ resp' = Response("updateStock", FALSE, productId, quantity, 0)
         /\ UNCHANGED <<products, inventoryMovements, transactions, transactionCounter,
                        nextProductId, calls, createdStock, directlyWritten, started, readSide, clientSide>>
         /\ report' = NoReport
    ELSE /\ products' = productsAfterUpdateStock(products, productId, quantity)
         /\ inventoryMovements' =
                movementsAfterUpdateStock(products, inventoryMovements, productId, quantity)
         /\ WithinBounds(inventoryMovements', started, nextProductId)
         /\ resp' = Response("updateStock", TRUE, productId, quantity, 1)
         /\ UNCHANGED <<transactions, transactionCounter, nextProductId, calls,
                        createdStock, directlyWritten, started, readSide, clientSide>>
         /\ report' = NoReport

-----------------------------------------------------------------------------
(* Transaction processor: createTransaction (storage.ts 273-289) *)

\* the Transaction record built before the loop: the payload and its number
transactionOf(insertTransaction, counter) ==
    [items |-> insertTransaction.items,
     totalAmount |-> insertTransaction.totalAmount,
     discount |-> insertTransaction.discount,
     transactionNumber |-> transactionNumberOf(counter),
     createdAt |-> now.day]

RemoveAt(seq, i) == SubSeq(seq, 1, i - 1) \o SubSeq(seq, i + 1, Len(seq))

\* One run of the method between two suspensions. `call` has had `applied`
\* of its items passed to updateStock. With items left, the next iteration
\* calls updateStock(item.productId, -item.quantity): a throw rejects the
\* call, otherwise the call suspends at the await. With no item left,
\* this.transactions.set(transaction.id, transaction) and the call returns.
\* `finished` / `suspended` are the suspended calls afterwards in either case.
createTransactionRun_storesFirst(call, finished, suspended) ==
    LET items == call.transaction.items
    IN  IF call.applied = Len(items)
        THEN /\ transactions' = IF items = <<>> THEN Append(transactions, call.transaction)
                                ELSE transactions
             /\ calls' = finished
             /\ resp' = Response("createTransaction", TRUE, 0, 0, call.applied)
             /\ UNCHANGED <<products, inventoryMovements>>
        ELSE LET item == items[call.applied + 1]
             IN  IF updateStockThrows(products, item.productId)
                 THEN /\ calls' = finished
                      /\ resp' = Response("createTransaction", FALSE, 0, 0,
                                          call.applied)
                      /\ UNCHANGED <<products, inventoryMovements, transactions>>
                 ELSE /\ products' =
                            productsAfterUpdateStock(products, item.productId, -item.quantity)
                      /\ inventoryMovements' =
                            movementsAfterUpdateStock(products, inventoryMovements,
                                                      item.productId, -item.quantity)
                      /\ calls' = suspended
                      /\ resp' = Response("createTransaction.await", TRUE, 0, 0,
                                          call.applied + 1)
                      /\ transactions' = IF call.applied = 0
                                         THEN Append(transactions, call.transaction)
                                         ELSE transactions

createTransactionRun(call, finished, suspended) ==
    LET items == call.transaction.items
    IN  IF call.applied = Len(items)
        THEN /\ transactions' = Append(transactions, call.transaction)
             /\ calls' = finished
             /\ resp' = Response("createTransaction", TRUE, 0, 0, call.applied)
             /\ UNCHANGED <<products, inventoryMovements>>
        ELSE LET item == items[call.applied + 1]
             IN  IF updateStockThrows(products, item.productId)
                 THEN /\ calls' = finished
                      /\ resp' = Response("createTransaction", FALSE, 0, 0,
                                          call.applied)
                      /\ UNCHANGED <<products, inventoryMovements, transactions>>
                 ELSE /\ products' =
                            productsAfterUpdateStock(products, item.productId, -item.quantity)
                      /\ inventoryMovements' =
                            movementsAfterUpdateStock(products, inventoryMovements,
                                                      item.productId, -item.quantity)
                      /\ calls' = suspended
                      /\ resp' = Response("createTransaction.await", TRUE, 0, 0,
                                          call.applied + 1)
                      /\ UNCHANGED transactions

\* POST /api/transactions -> createTransaction, up to its first await
createTransaction(insertTransaction) ==
    LET call == [transaction |-> transactionOf(insertTransaction, transactionCounter),
                 applied |-> 0]
    IN  /\ transactionCounter' = counterAfter(transactionCounter)
        /\ started' = Append(started, call.transaction.transactionNumber)
        /\ createTransactionRun(call, calls,
                                Append(calls, [call EXCEPT !.applied = 1]))
        /\ WithinBounds(inventoryMovements', started', nextProductId)
        /\ UNCHANGED <<nextProductId, createdStock, directlyWritten, readSide, clientSide>>
        /\ report' = NoReport

\* the i-th suspended createTransaction resumes after its await
createTransactionResume(i) ==
    /\ createTransactionRun(calls[i], RemoveAt(calls, i),
                            [calls EXCEPT ![i].applied = @ + 1])
    /\ WithinBounds(inventoryMovements', started, nextProductId)
    /\ UNCHANGED <<transactionCounter, nextProductId, createdStock, directlyWritten,
                   started, readSide, clientSide>>
    /\ report' = NoReport

-----------------------------------------------------------------------------
(* Sales analytics: getSalesAnalytics(period)                              *)

RECURSIVE SumSeq(_)
SumSeq(numbers) ==
    IF numbers = <<>> THEN 0 ELSE Head(numbers) + SumSeq(Tail(numbers))

\* the items of the transactions, in forEach order
RECURSIVE itemsOf(_)
itemsOf(txs) ==
    IF txs = <<>> THEN <<>> ELSE Head(txs).items \o itemsOf(Tail(txs))

\* switch (period): local midnight, now - 7 days, the 1st of the month.
\* A day that began 7 days ago is inside the weekly window.
startDateOf(period, clock) ==
    CASE period = "daily" -> clock.day
      [] period = "weekly" -> clock.day - 7
      [] period = "monthly" -> clock.monthStart

getTransactionsByDateRange(txs, startDate, endDate) ==
    SelectSeq(txs, LAMBDA t : t.createdAt >= startDate /\ t.createdAt <= endDate)

\* transactions.filter(toDateString equal).reduce(sum + totalAmount)
salesOfDay(txs, day) ==
    LET dayTransactions == SelectSeq(txs, LAMBDA t : t.createdAt = day)
    IN  SumSeq([i \in 1 .. Len(dayTransactions) |-> dayTransactions[i].totalAmount])

itemsSoldOf(txs) ==
    LET items == itemsOf(txs)
    IN  SumSeq([k \in 1 .. Len(items) |-> items[k].quantity])

isLowStock_noDefault(product) == OrElse(product.stock, 0) < OrElse(product.minStock, 0)

isLowStock(product) == OrElse(product.stock, 0) < OrElse(product.minStock, 5)

lowStockItemsOf(prods) == Cardinality({p \in DOMAIN prods : isLowStock(prods[p])})

totalRevenueOf(txs) == SumSeq([i \in 1 .. Len(txs) |-> txs[i].totalAmount])

\* parseFloat(product?.costPrice || "0") * item.quantity
costOf(prods, item) ==
    LET product == productOf(prods, item.productId)
    IN  (IF product = None THEN 0 ELSE OrElse(product[1].costPrice, 0)) * item.quantity

totalCostOf(txs, prods) ==
    LET items == itemsOf(txs)
    IN  SumSeq([k \in 1 .. Len(items) |-> costOf(prods, items[k])])

\* a fraction <<numerator, denominator>>, as a percentage
profitMarginOf_unguarded(txs, prods) ==
    <<(totalRevenueOf(txs) - totalCostOf(txs, prods)) * 100, totalRevenueOf(txs)>>

profitMarginOf(txs, prods) ==
    LET totalRevenue == totalRevenueOf(txs)
    IN  IF totalRevenue > 0
        THEN <<(totalRevenue - totalCostOf(txs, prods)) * 100, totalRevenue>>
        ELSE <<0, 1>>

\* stats.set(key, (stats.get(key) || 0) + amount) on a Map kept as the
\* sequence of its entries in insertion order
statsAdd(stats, key, field, amount) ==
    IF \E i \in 1 .. Len(stats) : stats[i].key = key
    THEN [i \in 1 .. Len(stats) |->
            IF stats[i].key = key THEN [stats[i] EXCEPT ![field] = @ + amount]
            ELSE stats[i]]
    ELSE Append(stats, [key |-> key] @@ (field :> amount))

RECURSIVE categoryStatsOf(_, _, _)
categoryStatsOf(stats, items, prods) ==
    IF items = <<>> THEN stats
    ELSE LET item == Head(items)
             product == productOf(prods, item.productId)
         IN  categoryStatsOf(IF product = None THEN stats
                             ELSE statsAdd(stats, product[1].category, "amount",
                                           item.price * item.quantity),
                             Tail(items), prods)

RECURSIVE productStatsOf(_, _)
productStatsOf(stats, items) ==
    IF items = <<>> THEN stats
    ELSE productStatsOf(statsAdd(stats, Head(items).productId, "quantity",
                                 Head(items).quantity),
                        Tail(items))

\* Array.prototype.sort((a, b) => b[field] - a[field]): stable, descending
RECURSIVE sortDescending(_, _)
sortDescending(entries, field) ==
    IF entries = <<>> THEN <<>>
    ELSE LET sorted == sortDescending(SubSeq(entries, 1, Len(entries) - 1), field)
             entry == entries[Len(entries)]
             before == SelectSeq(sorted, LAMBDA e : e[field] >= entry[field])
             after == SelectSeq(sorted, LAMBDA e : e[field] < entry[field])
         IN  before \o <<entry>> \o after

slice(entries, count) == SubSeq(entries, 1, IF Len(entries) < count THEN Len(entries) ELSE count)

topCategoriesOf(txs, prods) ==
    slice(sortDescending(categoryStatsOf(<<>>, itemsOf(txs), prods), "amount"), 5)

topProductsOf(txs) ==
    slice(sortDescending(productStatsOf(<<>>, itemsOf(txs)), "quantity"), 5)

\* for (i = 6; i >= 0; i--): the amount is summed over the local day
\* now - i days; the label is that instant's UTC date
salesTrendOf(txs, clock) ==
    [n \in 1 .. 7 |->
        [date |-> clock.utcDay - (7 - n), amount |-> salesOfDay(txs, clock.day - (7 - n))]]

\* the object getSalesAnalytics returns: `txs` were read before the first
\* await, `prods` after it
SalesAnalytics(period, clock, txs, prods) ==
    [op |-> "getSalesAnalytics",
     period |-> period,
     dailySales |-> salesOfDay(txs, clock.day),
     itemsSold |-> itemsSoldOf(txs),
     lowStockItems |-> lowStockItemsOf(prods),
     profitMargin |-> profitMarginOf(txs, prods),
     topCategories |-> topCategoriesOf(txs, prods),
     topProducts |-> topProductsOf(txs),
     salesTrend |-> salesTrendOf(txs, clock)]

-----------------------------------------------------------------------------
(* Inventory alerts: getInventoryAlerts()                                  *)

\* Array.from(this.products.values()): the ids in insertion order
RECURSIVE idsOf(_)
idsOf(ids) ==
    IF ids = {} THEN <<>>
    ELSE LET first == CHOOSE id \in ids : \A other \in ids : id <= other
         IN  <<first>> \o idsOf(ids \ {first})

\* Math.ceil((expiryDate - now) / one day)
daysToExpiryOf(product, clock) == product.expiryDate[1] - clock.day

isLowStockAlert_includingZero(product) == isLowStock(product)

isLowStockAlert(product) == isLowStock(product) /\ OrElse(product.stock, 0) > 0

isOutOfStock(product) == OrElse(product.stock, 0) = 0

isExpiringSoon(product, clock) ==
    /\ product.expiryDate # None
    /\ daysToExpiryOf(product, clock) <= 7
    /\ daysToExpiryOf(product, clock) > 0

\* if (bucket.length > 0) alerts.push({type, products: bucket.map(...)})
alertOf(type, bucket) == IF bucket = <<>> THEN <<>> ELSE <<[type |-> type, products |-> bucket]>>

InventoryAlerts(prods, clock) ==
    LET ids == idsOf(DOMAIN prods)
        lowStockProducts == SelectSeq(ids, LAMBDA id : isLowStockAlert(prods[id]))
        outOfStockProducts == SelectSeq(ids, LAMBDA id : isOutOfStock(prods[id]))
        expiringSoonProducts == SelectSeq(ids, LAMBDA id : isExpiringSoon(prods[id], clock))
    IN  alertOf("low_stock",
                [i \in 1 .. Len(lowStockProducts) |->
                    [id |-> lowStockProducts[i],
                     currentStock |-> OrElse(prods[lowStockProducts[i]].stock, 0)]])
        \o alertOf("out_of_stock",
                   [i \in 1 .. Len(outOfStockProducts) |->
                       [id |-> outOfStockProducts[i], currentStock |-> 0]])
        \o alertOf("expiring_soon",
                   [i \in 1 .. Len(expiringSoonProducts) |->
                       [id |-> expiringSoonProducts[i],
                        currentStock |-> OrElse(prods[expiringSoonProducts[i]].stock, 0),
                        daysToExpiry |->
                            daysToExpiryOf(prods[expiringSoonProducts[i]], clock)]])

-----------------------------------------------------------------------------
(* Chat assistant: processAIChatQuery, generateInventoryInsights           *)

\* What openai.chat.completions.create does: it throws, or it resolves
\* with response.choices[0].message.content, which may be null.
Completion(throws, content) == [throws |-> throws, content |-> content]

CompletionInputs ==
    {Completion(TRUE, None),
     Completion(FALSE, None),
     Completion(FALSE, Some("Sorry, I cannot answer that.")),
     Completion(FALSE, Some("{\"message\":\"Reorder Colgate\",\"suggestions\":[\"Order 20 units\"]}"))}

\* JSON.parse on the texts above: a SyntaxError, or the object
JSONparse(text) ==
    CASE text = "{}" ->
            [throws |-> FALSE, message |-> None, suggestions |-> None]
      [] text = "{\"message\":\"Reorder Colgate\",\"suggestions\":[\"Order 20 units\"]}" ->
            [throws |-> FALSE, message |-> Some("Reorder Colgate"),
             suggestions |-> Some(<<"Order 20 units">>)]
      [] OTHER ->
            [throws |-> TRUE, message |-> None, suggestions |-> None]

\* x || d on a string or an array: null, undefined and "" are falsy
OrDefault(x, d) == IF x = None \/ x = Some("") THEN d ELSE x[1]

ChatResponse(message, suggestions) == [message |-> message, suggestions |-> suggestions]

chatFallback ==
    ChatResponse("I'm currently unable to process your request. Please try again later.",
                 <<"Check your sales dashboard for recent trends",
                   "Review inventory alerts for low stock items",
                   "Consider analyzing your top-selling products">>)

insightsFallback ==
    ChatResponse("Unable to generate inventory insights at the moment.",
                 <<"Review products with low stock levels",
                   "Check for slow-moving inventory",
                   "Monitor expiring products">>)

\* try { create; JSON.parse(content || "{}"); return {...} } catch { return fallback }
answerOf(completion, defaultMessage, fallback) ==
    IF completion.throws THEN fallback
    ELSE LET result == JSONparse(OrDefault(completion.content, "{}"))
         IN  IF result.throws THEN fallback
             ELSE ChatResponse(OrDefault(result.message, defaultMessage),
                               IF result.suggestions = None THEN <<>>
                               ELSE result.suggestions[1])

processAIChatQuery_uncaught(completion) ==
    IF completion.throws \/ JSONparse(OrDefault(completion.content, "{}")).throws
    THEN ChatResponse("Failed to process chat query", <<>>)
    ELSE answerOf(completion, "I'm here to help with your business insights!", chatFallback)

processAIChatQuery(completion) ==
    answerOf(completion, "I'm here to help with your business insights!", chatFallback)

generateInventoryInsights(completion) ==
    answerOf(completion, "Here are your inventory insights.", insightsFallback)

-----------------------------------------------------------------------------
(* Reads, reference data and the clock *)

\* what the operations below leave alone
storeState == <<products, inventoryMovements, transactions, transactionCounter,
                nextProductId, calls, createdStock, directlyWritten, started>>

\* GET /api/analytics/:period -> getSalesAnalytics, up to its first
\* await: `now`, startDate and the filtered transactions are in hand
getSalesAnalytics(period) ==
    /\ Records(inventoryMovements, started, nextProductId) < MaxRecords
    /\ reads' = Append(reads,
                       [period |-> period, now |-> now,
                        transactions |->
                            getTransactionsByDateRange(transactions,
                                                       startDateOf(period, now),
                                                       now.day)])
    /\ resp' = Response("getSalesAnalytics.await", TRUE, 0, 0, 0)
    /\ report' = NoReport
    /\ UNCHANGED <<clientSide, storeState, categories, shopSettings, now>>

\* the i-th suspended getSalesAnalytics resumes: it reads the products and
\* returns
getSalesAnalyticsResume(i) ==
    /\ reads' = RemoveAt(reads, i)
    /\ report' = SalesAnalytics(reads[i].period, reads[i].now, reads[i].transactions,
                                products)
    /\ resp' = Response("getSalesAnalytics", TRUE, 0, 0, 0)
    /\ UNCHANGED <<clientSide, storeState, categories, shopSettings, now>>

getInventoryAlerts_deactivating ==
    /\ report' = [op |-> "getInventoryAlerts", alerts |-> InventoryAlerts(products, now)]
    /\ products' = [id \in DOMAIN products |->
                       IF isOutOfStock(products[id])
                       THEN [products[id] EXCEPT !.isActive = Some(FALSE)]
                       ELSE products[id]]
    /\ resp' = Response("getInventoryAlerts", TRUE, 0, 0, 0)
    /\ UNCHANGED <<inventoryMovements, transactions, transactionCounter, nextProductId,
                   calls, createdStock, directlyWritten, started, readSide, clientSide>>

\* GET /api/inventory-alerts -> getInventoryAlerts
getInventoryAlerts ==
    /\ report' = [op |-> "getInventoryAlerts", alerts |-> InventoryAlerts(products, now)]
    /\ resp' = Response("getInventoryAlerts", TRUE, 0, 0, 0)
    /\ UNCHANGED <<storeState, readSide, clientSide>>

MessageInputs == {"", "What should I reorder?"}

\* POST /api/chat: 400 without a message; otherwise the context is read
\* from the storage and processAIChatQuery's result is sent
chat(message, completion) ==
    /\ report' = IF message = ""
                 THEN [op |-> "chat", message |-> message, completion |-> completion,
                       status |-> 400, body |-> [message |-> "Message is required"]]
                 ELSE [op |-> "chat", message |-> message, completion |-> completion,
                       status |-> 200, body |-> processAIChatQuery(completion)]
    /\ resp' = Response("chat", message # "", 0, 0, 0)
    /\ UNCHANGED <<storeState, readSide, clientSide>>

\* GET /api/ai-insights/inventory
insights(completion) ==
    /\ report' = [op |-> "insights", completion |-> completion,
                  status |-> 200, body |-> generateInventoryInsights(completion)]
    /\ resp' = Response("insights", TRUE, 0, 0, 0)
    /\ UNCHANGED <<storeState, readSide, clientSide>>

InsertCategoryInputs == {[name |-> "Dairy", isActive |-> None]}

\* POST /api/categories -> createCategory
createCategory(insertCategory) ==
    /\ Records(inventoryMovements, started, nextProductId) < MaxRecords
    /\ categories' = Append(categories, insertCategory)
    /\ resp' = Response("createCategory", TRUE, 0, 0, 0)
    /\ report' = NoReport
    /\ UNCHANGED <<clientSide, storeState, shopSettings, now, reads>>

SettingsInputs == {[isOfflineMode |-> Some(TRUE)]}

\* PUT /api/settings -> updateShopSettings: {...this.shopSettings, ...updateData}
updateShopSettings(updateData) ==
    /\ shopSettings' = spread(shopSettings, updateData)
    /\ resp' = Response("updateShopSettings", TRUE, 0, 0, 0)
    /\ report' = NoReport
    /\ UNCHANGED <<clientSide, storeState, categories, now, reads>>

\* A day passes. The new day may begin a calendar month; and when the
\* clock is read it may still be the day before in UTC.
Tick ==
    /\ Records(inventoryMovements, started, nextProductId) < MaxRecords
    /\ \E monthStart \in {now.monthStart, now.day + 1}, utcDay \in {now.day, now.day + 1} :
          now' = [day |-> now.day + 1, monthStart |-> monthStart, utcDay |-> utcDay]
    /\ resp' = Response("clock", TRUE, 0, 0, 0)
    /\ report' = NoReport
    /\ UNCHANGED <<clientSide, storeState, categories, shopSettings, reads>>

-----------------------------------------------------------------------------

Next ==
    \/ \E insertProduct \in InsertProductInputs : createProduct(insertProduct)
    \/ \E id \in UpdateIdInputs, updateData \in UpdateDataInputs :
          updateProduct(id, updateData)
    \/ \E id \in DeleteIdInputs : deleteProduct(id)
    \/ \E productId \in ProductIdInputs, quantity \in QuantityInputs :
          updateStock(productId, quantity)
    \/ \E insertTransaction \in InsertTransactionInputs :
          createTransaction(insertTransaction)
    \/ \E i \in 1 .. Len(calls) : createTransactionResume(i)

Spec == Init /\ [][Next]_vars

-----------------------------------------------------------------------------
(* The store with its reads: a catalog that grows, valid sales, the clock, *)
(* and the analytics, alerts and chat requests.                            *)

\* a product out of stock, without minStock, expiring on day 2, with the
\* barcode of the seeded Colgate
CatalogProductInputs ==
    {[barcode |-> Some("8901030003456"), price |-> 1000, costPrice |-> None,
      category |-> "Snacks", stock |-> Some(0), minStock |-> None, isActive |-> None,
      expiryDate |-> Some(2)]}

\* the barcode of the seeded Coca Cola
CatalogUpdateInputs == {[barcode |-> Some("8901030001234")]}

\* the seeded Colgate is taken off sale
DeactivationInputs == {[isActive |-> Some(FALSE)]}

SaleInputs == {InsertTransaction(<<Item(3, 4500, 1)>>, 4500, 0)}

PeriodInputs == {"daily", "weekly", "monthly"}

NextAnalytics ==
    \/ \E insertProduct \in CatalogProductInputs : createProduct(insertProduct)
    \/ \E id \in UpdateIdInputs, updateData \in DeactivationInputs :
          updateProduct(id, updateData)
    \/ \E insertTransaction \in SaleInputs : createTransaction(insertTransaction)
    \/ \E i \in 1 .. Len(calls) : createTransactionResume(i)
    \/ \E period \in PeriodInputs : getSalesAnalytics(period)
    \/ \E i \in 1 .. Len(reads) : getSalesAnalyticsResume(i)
    \/ getInventoryAlerts
    \/ \E updateData \in SettingsInputs : updateShopSettings(updateData)
    \/ Tick

SpecAnalytics == Init /\ [][NextAnalytics]_vars

-----------------------------------------------------------------------------
(* The store with its assistant: catalog and category edits, valid sales,  *)
(* and the chat and insights requests.                                     *)

NextAssistant ==
    \/ \E insertProduct \in CatalogProductInputs : createProduct(insertProduct)
    \/ \E id \in UpdateIdInputs, updateData \in CatalogUpdateInputs :
          updateProduct(id, updateData)
    \/ \E insertCategory \in InsertCategoryInputs : createCategory(insertCategory)
    \/ \E insertTransaction \in SaleInputs : createTransaction(insertTransaction)
    \/ \E i \in 1 .. Len(calls) : createTransactionResume(i)
    \/ \E message \in MessageInputs, completion \in CompletionInputs :
          chat(message, completion)
    \/ \E completion \in CompletionInputs : insights(completion)

SpecAssistant == Init /\ [][NextAssistant]_vars

-----------------------------------------------------------------------------
(* The browser: OfflineQueue and OfflineSyncManager                        *)

\* what the operations of the browser leave alone
serverSide == <<storeState, readSide, resp, report>>

Event(op, outcome, item, sent) ==
    [op |-> op, outcome |-> outcome, item |-> item, sent |-> sent]

\* the budget MaxRecords caps in the browser: operations queued,
\* milliseconds elapsed, sync runs in flight
ClientRecords == added + msNow + Len(runs)

\* {id: Date.now().toString(), type, endpoint, data, method, timestamp}
QueueItem(ms, type, data) ==
    [id |-> String(ms), type |-> type, data |-> data, timestamp |-> ms]

QueueTypeInputs == {"CREATE"}

\* OfflineQueue.addToQueue: the payload of the n-th operation queued is n
addToQueue(type) ==
    /\ ClientRecords < MaxRecords
    /\ queue' = Append(queue, QueueItem(msNow, type, added + 1))
    /\ added' = added + 1
    /\ event' = Event("addToQueue", "", added + 1, 0)
    /\ UNCHANGED <<serverSide, syncInProgress, online, runs, msNow, cart>>

\* OfflineQueue.removeFromQueue: queue.filter(item => item.id !== itemId)
removeFromQueue(items, itemId) == SelectSeq(items, LAMBDA item : item.id # itemId)

\* OfflineQueue.clearQueue
clearQueue ==
    /\ queue' = <<>>
    /\ event' = Event("clearQueue", "", 0, 0)
    /\ UNCHANGED <<serverSide, syncInProgress, online, runs, msNow, added, cart>>

syncGuard_onlineOnly(inProgress, isOnline) == ~isOnline

\* if (this.syncInProgress || !this.isOnline()) return
syncGuard(inProgress, isOnline) == inProgress \/ ~isOnline

\* syncPendingOperations up to its first await, called when navigator.onLine
\* is isOnline: it returns at the guard; or it takes the guard, reads the
\* queue and, the queue being empty, releases the guard; or it sends the
\* first item's request and suspends
syncPendingOperations(op, isOnline) ==
    IF syncGuard(syncInProgress, isOnline)
    THEN /\ event' = Event(op, "returned", 0, 0)
         /\ UNCHANGED <<queue, syncInProgress, runs>>
    ELSE IF queue = <<>>
    THEN /\ syncInProgress' = FALSE
         /\ event' = Event(op, "synced", 0, 0)
         /\ UNCHANGED <<queue, runs>>
    ELSE /\ ClientRecords < MaxRecords
         /\ syncInProgress' = TRUE
         /\ runs' = Append(runs, [snapshot |-> queue, position |-> 1])
         /\ event' = Event(op, "fetch", queue[1].data, 1)
         /\ UNCHANGED queue

\* window 'online' event
goOnline ==
    /\ ~online
    /\ online' = TRUE
    /\ syncPendingOperations("online", TRUE)
    /\ UNCHANGED <<serverSide, msNow, added, cart>>

\* window 'offline' event
goOffline ==
    /\ online
    /\ online' = FALSE
    /\ event' = Event("offline", "", 0, 0)
    /\ UNCHANGED <<serverSide, queue, syncInProgress, runs, msNow, added, cart>>

\* setInterval(..., 30000)
timer ==
    /\ IF online /\ queue # <<>>
       THEN syncPendingOperations("timer", online)
       ELSE /\ event' = Event("timer", "idle", 0, 0)
            /\ UNCHANGED <<queue, syncInProgress, runs>>
    /\ UNCHANGED <<serverSide, online, msNow, added, cart>>

\* syncManager.syncPendingOperations() called by the application
callSync ==
    /\ syncPendingOperations("syncPendingOperations", online)
    /\ UNCHANGED <<serverSide, online, msNow, added, cart>>

FetchOutcomes == {"ok", "failed", "threw"}

\* the fetch of the r-th suspended run settles: on an ok response the item
\* is removed from the stored queue; then the loop sends the next item of
\* its snapshot, or ends and releases the guard
fetchSettles(r, outcome) ==
    LET run == runs[r]
        item == run.snapshot[run.position]
    IN  /\ queue' = IF outcome = "ok" THEN removeFromQueue(queue, item.id) ELSE queue
        /\ IF run.position < Len(run.snapshot)
           THEN /\ runs' = [runs EXCEPT ![r].position = @ + 1]
                /\ event' = Event("fetch", outcome, item.data, 1)
                /\ UNCHANGED syncInProgress
           ELSE /\ runs' = RemoveAt(runs, r)
                /\ syncInProgress' = FALSE
                /\ event' = Event("fetch", outcome, item.data, 0)
        /\ UNCHANGED <<serverSide, online, msNow, added, cart>>

\* a millisecond passes
TickMs ==
    /\ ClientRecords < MaxRecords
    /\ msNow' = msNow + 1
    /\ event' = Event("clock", "", 0, 0)
    /\ UNCHANGED <<serverSide, queue, syncInProgress, online, runs, added, cart>>

NextOffline ==
    \/ \E type \in QueueTypeInputs : addToQueue(type)
    \/ clearQueue
    \/ goOnline
    \/ goOffline
    \/ timer
    \/ callSync
    \/ \E r \in 1 .. Len(runs), outcome \in FetchOutcomes : fetchSettles(r, outcome)
    \/ TickMs

SpecOffline == Init /\ [][NextOffline]_vars

-----------------------------------------------------------------------------
(* The browser: Billing's cart                                             *)

\* the Product the scanner or the product list hands to addToCart: the
\* stored product as the server returned it
productSnapshot(prods, id) ==
    [id |-> id, price |-> prods[id].price, stock |-> prods[id].stock]

CartItem(product, quantity) == [product |-> product, quantity |-> quantity]

\* prev.find(item => item.product.id === productId), as an index or 0
cartFind(prev, productId) ==
    IF \E k \in 1 .. Len(prev) : prev[k].product.id = productId
    THEN CHOOSE k \in 1 .. Len(prev) :
            /\ prev[k].product.id = productId
            /\ \A j \in 1 .. k - 1 : prev[j].product.id # productId
    ELSE 0

\* prev.map(item => item.product.id === productId ? {...item, quantity} : item)
cartSet(prev, productId, quantity) ==
    [k \in 1 .. Len(prev) |->
        IF prev[k].product.id = productId
        THEN [prev[k] EXCEPT !.quantity = quantity] ELSE prev[k]]

\* the updater addToCart passes to setCart
cartAfterAdd(prev, product) ==
    LET existing == cartFind(prev, product.id)
    IN  IF existing # 0
        THEN IF prev[existing].quantity >= OrElse(product.stock, 0)
             THEN prev
             ELSE [k \in 1 .. Len(prev) |->
                     IF prev[k].product.id = product.id
                     THEN [prev[k] EXCEPT !.quantity = @ + 1] ELSE prev[k]]
        ELSE Append(prev, CartItem(product, 1))

ScanIdInputs == {2, 3}

addToCart(product) ==
    /\ IF OrElse(product.stock, 0) <= 0
       THEN /\ event' = Event("addToCart", "Out of Stock", product.id, 0)
            /\ UNCHANGED cart
       ELSE /\ cart' = cartAfterAdd(cart, product)
            /\ event' = Event("addToCart", "", product.id, 0)
    /\ UNCHANGED <<serverSide, queue, syncInProgress, online, runs, msNow, added>>

cartAfterRemove(prev, productId) ==
    SelectSeq(prev, LAMBDA item : item.product.id # productId)

removeFromCart(productId) ==
    /\ cart' = cartAfterRemove(cart, productId)
    /\ event' = Event("removeFromCart", "", productId, 0)
    /\ UNCHANGED <<serverSide, queue, syncInProgress, online, runs, msNow, added>>

updateQuantity(productId, newQuantity) ==
    /\ IF newQuantity <= 0
       THEN /\ cart' = cartAfterRemove(cart, productId)
            /\ event' = Event("updateQuantity", "removed", productId, 0)
       ELSE LET item == cartFind(cart, productId)
            IN  IF item # 0 /\ newQuantity > OrElse(cart[item].product.stock, 0)
                THEN /\ event' = Event("updateQuantity", "Insufficient Stock",
                                       productId, 0)
                     /\ UNCHANGED cart
                ELSE /\ cart' = cartSet(cart, productId, newQuantity)
                     /\ event' = Event("updateQuantity", "", productId, 0)
    /\ UNCHANGED <<serverSide, queue, syncInProgress, online, runs, msNow, added>>

\* the - and + buttons of a cart line
QuantitySteps == {-1, 1}

\* meanwhile the back office restocks the Colgate, or writes some off
BillingStockInputs == {-4, 2}

NextBilling ==
    \/ \E productId \in UpdateIdInputs, quantity \in BillingStockInputs :
          updateStock(productId, quantity)
    \/ \E id \in ScanIdInputs : addToCart(productSnapshot(products, id))
    \/ \E k \in 1 .. Len(cart), step \in QuantitySteps :
          updateQuantity(cart[k].product.id, cart[k].quantity + step)
    \/ \E k \in 1 .. Len(cart) : removeFromCart(cart[k].product.id)

SpecBilling == Init /\ [][NextBilling]_vars

-----------------------------------------------------------------------------
(* The store with its sales report: sales over two categories, a sale      *)
(* discounted to nothing, the deletion of a sold product, and analytics.   *)

ReportSaleInputs ==
    {InsertTransaction(<<Item(2, 1200, 1), Item(3, 4500, 1)>>, 5700, 0),
     InsertTransaction(<<Item(3, 4500, 1)>>, 0, 4500)}

ReportDeleteInputs == {3}

NextReports ==
    \/ \E insertTransaction \in ReportSaleInputs : createTransaction(insertTransaction)
    \/ \E i \in 1 .. Len(calls) : createTransactionResume(i)
    \/ \E id \in ReportDeleteInputs : deleteProduct(id)
    \/ \E period \in PeriodInputs : getSalesAnalytics(period)
    \/ \E i \in 1 .. Len(reads) : getSalesAnalyticsResume(i)

SpecReports == Init /\ [][NextReports]_vars

-----------------------------------------------------------------------------
(* Vocabulary of the properties *)

\* the integer a stock column stands for: an unset column counts as 0
StockValue(column) == IF column = None THEN 0 ELSE column[1]

Last(seq) == seq[Len(seq)]

\* the movements a step has added to the log
AddedMovements == SubSeq(inventoryMovements', Len(inventoryMovements) + 1,
                         Len(inventoryMovements'))

DigitValue(char) == CHOOSE d \in 0 .. 9 : DigitChars[d + 1] = char

\* the number a sequence of decimal digits denotes
RECURSIVE Number(_)
Number(digits) ==
    IF digits = <<>> THEN 0
    ELSE 10 * Number(SubSeq(digits, 1, Len(digits) - 1)) + DigitValue(Last(digits))

\* the digits of a transactionNumber, after its three-letter prefix
DigitsOf(transactionNumber) == SubSeq(transactionNumber, 4, Len(transactionNumber))

\* 'TXN', then a decimal number zero-padded to at least 4 digits
WellFormedNumber(transactionNumber) ==
    /\ Len(transactionNumber) >= 7
    /\ SubSeq(transactionNumber, 1, 3) = <<"T", "X", "N">>
    /\ \A k \in 4 .. Len(transactionNumber) :
          \E d \in 1 .. 10 : DigitChars[d] = transactionNumber[k]
    /\ Len(transactionNumber) > 7 => transactionNumber[4] # "0"

-----------------------------------------------------------------------------
(* C1 - stock is never negative.                                           *)
(* In every reachable state every stored product's stock is >= 0.          *)
(* createProduct stores the stock the schema let through, of either sign.  *)

StockNeverNegative ==
    \A id \in DOMAIN products : StockValue(products[id].stock) >= 0

-----------------------------------------------------------------------------
(* C2 - updateStock on an existing product p with stock s and delta d sets *)
(* p's stock to max(0, s + d) and appends exactly one movement, for p,     *)
(* with previousStock = s, newStock = max(0, s + d), quantity = |d| and    *)
(* type 'purchase' if d > 0 else 'sale'; the rest of the log is untouched. *)

UpdateStockEffect(p, d) ==
    LET s == StockValue(products[p].stock)
        clamped == IF s + d < 0 THEN 0 ELSE s + d
        m == Last(inventoryMovements')
    IN  /\ resp'.ok
        /\ p \in DOMAIN products'
        /\ products'[p].stock = Some(clamped)
        /\ Len(inventoryMovements') = Len(inventoryMovements) + 1
        /\ SubSeq(inventoryMovements', 1, Len(inventoryMovements)) = inventoryMovements
        /\ m.productId = p
        /\ m.previousStock = s
        /\ m.newStock = clamped
        /\ m.quantity = (IF d < 0 THEN 0 - d ELSE d)
        /\ m.type = (IF d > 0 THEN "purchase" ELSE "sale")

UpdateStockAppliesClampedDelta ==
    [][(resp'.op = "updateStock" /\ resp'.productId \in DOMAIN products)
          => UpdateStockEffect(resp'.productId, resp'.quantity)]_vars

\* an updateStock that took more than the stock held has just run
UpdateStockClampedWitness ==
    /\ resp.op = "updateStock"
    /\ resp.ok
    /\ inventoryMovements # <<>>
    /\ Last(inventoryMovements).previousStock + resp.quantity < 0
    /\ Last(inventoryMovements).newStock = 0

-----------------------------------------------------------------------------
(* C3 - createTransaction is all-or-nothing: a call that fails has changed *)
(* no stock and appended no movement. `applied` counts the items of the    *)
(* call that updateStock has already been run for.                         *)

FailedTransactionAppliedNothing ==
    (resp.op = "createTransaction" /\ ~resp.ok) => resp.applied = 0

-----------------------------------------------------------------------------
(* C4 - every transactionNumber is 'TXN' followed by the counter value     *)
(* zero-padded to at least 4 digits; the counter values strictly increase  *)
(* in the order the calls start; no two stored transactions share a number.*)

TransactionNumbersSequentialAndUnique ==
    /\ \A i \in 1 .. Len(started) : WellFormedNumber(started[i])
    /\ \A i, j \in 1 .. Len(started) :
          i < j => Number(DigitsOf(started[i])) < Number(DigitsOf(started[j]))
    /\ \A i \in 1 .. Len(transactions) :
          /\ \E k \in 1 .. Len(started) : started[k] = transactions[i].transactionNumber
          /\ Number(DigitsOf(transactions[i].transactionNumber)) < transactionCounter
    /\ \A i, j \in 1 .. Len(transactions) :
          i # j => transactions[i].transactionNumber # transactions[j].transactionNumber

\* two calls were in flight together and the one started later was stored first
TransactionsStoredOutOfStartOrderWitness ==
    /\ Len(transactions) = 2
    /\ Number(DigitsOf(transactions[1].transactionNumber))
          > Number(DigitsOf(transactions[2].transactionNumber))

-----------------------------------------------------------------------------
(* C5 - no lost updates. Whatever calls are suspended at their awaits,     *)
(* every step that touches the log appends exactly one movement, whose     *)
(* previousStock is the stock the product holds at that very step and      *)
(* whose newStock is the stock the product holds right after it, and it    *)
(* changes no other product; so for a product whose stock only the ledger  *)
(* has written, each movement starts from the newStock of the one before.  *)

IndivisibleStockUpdate ==
    Len(inventoryMovements') # Len(inventoryMovements) =>
        /\ Len(inventoryMovements') = Len(inventoryMovements) + 1
        /\ SubSeq(inventoryMovements', 1, Len(inventoryMovements)) = inventoryMovements
        /\ LET m == Last(inventoryMovements')
           IN  /\ m.productId \in DOMAIN products
               /\ m.productId \in DOMAIN products'
               /\ m.previousStock = StockValue(products[m.productId].stock)
               /\ products'[m.productId].stock = Some(m.newStock)
               /\ \A other \in DOMAIN products \ {m.productId} :
                     other \in DOMAIN products' /\ products'[other] = products[other]

MovementsChain ==
    \A p \in DOMAIN createdStock \ directlyWritten :
        LET ms == getInventoryMovements(inventoryMovements, p)
        IN  /\ ms # <<>> => ms[1].previousStock = StockValue(createdStock[p])
            /\ \A k \in 1 .. Len(ms) - 1 : ms[k + 1].previousStock = ms[k].newStock

NoLostUpdates == []MovementsChain /\ [][IndivisibleStockUpdate]_vars

\* two createTransaction calls are suspended, each after selling product 3,
\* and their two movements are the last two of the log
TwoCallsInFlightOnOneProductWitness ==
    /\ Len(calls) = 2
    /\ \A i \in 1 .. 2 : calls[i].applied = 1 /\ calls[i].transaction.items[1].productId = 3
    /\ Len(inventoryMovements) = 2
    /\ \A k \in 1 .. 2 : inventoryMovements[k].productId = 3

-----------------------------------------------------------------------------
(* C6 - updateStock with a productId that resolves to no stored product    *)
(* fails, and leaves the products, the movements, the transactions and the *)
(* transaction counter as they were.                                       *)

UpdateStockUnknownProductFails ==
    [][(resp'.op = "updateStock" /\ resp'.productId \notin DOMAIN products)
          => /\ ~resp'.ok
             /\ UNCHANGED <<products, inventoryMovements, transactions,
                            transactionCounter>>]_vars

UpdateStockUnknownProductWitness ==
    /\ resp.op = "updateStock"
    /\ ~resp.ok
    /\ resp.productId \notin DOMAIN products

-----------------------------------------------------------------------------
(* C7 - createTransaction rejects invalid carts: no transaction is stored  *)
(* whose items list is empty or holds an item with quantity <= 0.          *)

StoredCartsAreValid ==
    \A i \in 1 .. Len(transactions) :
        /\ transactions[i].items # <<>>
        /\ \A k \in 1 .. Len(transactions[i].items) :
              transactions[i].items[k].quantity > 0

-----------------------------------------------------------------------------
(* C8 - every stored transaction's totalAmount equals                      *)
(* max(0, sum of price * quantity over its items, minus its discount).     *)

StoredTotalIsCheckoutTotal ==
    \A i \in 1 .. Len(transactions) :
        transactions[i].totalAmount =
            calculateTotal(transactions[i].items, transactions[i].discount)

-----------------------------------------------------------------------------
(* C9 - stock changes only through the ledger: a step that changes the     *)
(* stock of a product that exists before and after it appends a movement   *)
(* for that product.                                                       *)

StockChangesOnlyWithMovement ==
    [][\A p \in DOMAIN products \cap DOMAIN products' :
          products'[p].stock # products[p].stock
              => \E k \in 1 .. Len(AddedMovements) : AddedMovements[k].productId = p]_vars

-----------------------------------------------------------------------------
(* C10 - replay round trip: for a product created with stock s0 whose      *)
(* stock only updateStock and createTransaction have changed, folding its  *)
(* movements in append order from s0 with stock := max(0, stock + d),      *)
(* d = +quantity for 'purchase' and -quantity for 'sale', gives its        *)
(* current stock; and the last movement's newStock is the current stock.   *)

SignedDelta(m) == IF m.type = "purchase" THEN m.quantity ELSE 0 - m.quantity

RECURSIVE Replay(_, _)
Replay(stock, ms) ==
    IF ms = <<>> THEN stock
    ELSE Replay(IF stock + SignedDelta(Head(ms)) < 0 THEN 0
                ELSE stock + SignedDelta(Head(ms)), Tail(ms))

ReplayReproducesStock ==
    \A p \in DOMAIN products \ directlyWritten :
        LET ms == getInventoryMovements(inventoryMovements, p)
            current == StockValue(products[p].stock)
        IN  /\ Replay(StockValue(createdStock[p]), ms) = current
            /\ ms # <<>> => Last(ms).newStock = current

\* product 3 was taken below zero, clamped, and restocked: its stock is not
\* max(0, s0 + the sum of the deltas)
ReplayThroughClampWitness ==
    /\ 3 \in DOMAIN products \ directlyWritten
    /\ LET ms == getInventoryMovements(inventoryMovements, 3)
       IN  /\ Len(ms) = 2
           /\ ms[1].previousStock - ms[1].quantity < 0
           /\ ms[1].newStock = 0
           /\ ms[2].type = "purchase"
           /\ StockValue(products[3].stock)
                 # SeedStockColgate + SignedDelta(ms[1]) + SignedDelta(ms[2])

-----------------------------------------------------------------------------
(* C11 - a sequence of updateStock calls on one product, from stock s0     *)
(* with deltas d1 .. dn: when no intermediate result s0 + d1 + .. + dk is  *)
(* negative the final stock is max(0, s0 + the sum of the deltas);         *)
(* otherwise each call leaves max(0, stock before it + its delta), the     *)
(* clamped trajectory, which the sum of the deltas does not give.          *)

RECURSIVE SumOfDeltas(_)
SumOfDeltas(ms) ==
    IF ms = <<>> THEN 0 ELSE SignedDelta(Head(ms)) + SumOfDeltas(Tail(ms))

NoIntermediateNegative(s0, ms) ==
    \A k \in 1 .. Len(ms) : s0 + SumOfDeltas(SubSeq(ms, 1, k)) >= 0

\* the stock after the first k calls, each clamped at zero
RECURSIVE Trajectory(_, _, _)
Trajectory(s0, ms, k) ==
    IF k = 0 THEN s0
    ELSE Max(0, Trajectory(s0, ms, k - 1) + SignedDelta(ms[k]))

SequenceOfUpdatesClamps ==
    \A p \in DOMAIN products \ directlyWritten :
        LET ms == getInventoryMovements(inventoryMovements, p)
            s0 == StockValue(createdStock[p])
            final == StockValue(products[p].stock)
        IN  ms # <<>> =>
              /\ NoIntermediateNegative(s0, ms) => final = Max(0, s0 + SumOfDeltas(ms))
              /\ \A k \in 1 .. Len(ms) : ms[k].newStock = Trajectory(s0, ms, k)
              /\ final = Trajectory(s0, ms, Len(ms))

\* product 3, stock 3, deltas -4 then +2: 0 then 2, where the sum gives 1
SequenceOfUpdatesClampedWitness ==
    /\ 3 \in DOMAIN products \ directlyWritten
    /\ LET ms == getInventoryMovements(inventoryMovements, 3)
       IN  /\ Len(ms) = 2
           /\ <<SignedDelta(ms[1]), SignedDelta(ms[2])>> = <<-4, 2>>
           /\ ~NoIntermediateNegative(SeedStockColgate, ms)
           /\ <<ms[1].newStock, ms[2].newStock>> = <<0, 2>>
           /\ products[3].stock = Some(2)
           /\ Max(0, SeedStockColgate + SumOfDeltas(ms)) = 1

-----------------------------------------------------------------------------
(* C12 - history is append-only: every step (deleteProduct, updateProduct, *)
(* updateStock, createTransaction, createProduct) leaves each stored       *)
(* transaction and each stored movement present and unchanged; the logs    *)
(* only grow at their end.                                                 *)

IsPrefix(older, newer) ==
    /\ Len(older) <= Len(newer)
    /\ SubSeq(newer, 1, Len(older)) = older

HistoryAppendOnly ==
    [][/\ IsPrefix(transactions, transactions')
       /\ IsPrefix(inventoryMovements, inventoryMovements')]_vars

\* product 5 was sold in a stored transaction and then deleted: the
\* transaction and the movement that name it are still there
HistoryOutlivesProductWitness ==
    /\ resp.op = "deleteProduct"
    /\ 5 \notin DOMAIN products
    /\ \E i \in 1 .. Len(transactions) :
          \E k \in 1 .. Len(transactions[i].items) : transactions[i].items[k].productId = 5
    /\ \E k \in 1 .. Len(inventoryMovements) : inventoryMovements[k].productId = 5

-----------------------------------------------------------------------------
(* C19 - a createTransaction call appends one movement per item, in item   *)
(* order, of type 'sale' and with the item's quantity; when it succeeds    *)
(* with n items it has appended exactly n; no movement it causes has       *)
(* another type.                                                           *)
(* An item with a negative quantity, which createTransaction does not      *)
(* reject (C7), is passed on as a positive delta and logged as 'purchase'. *)

EveryItemLoggedAsSale ==
    [][/\ resp'.op = "createTransaction.await" =>
             /\ Len(AddedMovements) = 1
             /\ AddedMovements[1].type = "sale"
             /\ \E i \in 1 .. Len(calls') :
                   /\ calls'[i].applied = resp'.applied
                   /\ LET item == calls'[i].transaction.items[resp'.applied]
                      IN  /\ AddedMovements[1].productId = item.productId
                          /\ AddedMovements[1].quantity = item.quantity
       /\ (resp'.op = "createTransaction" /\ resp'.ok) =>
             /\ AddedMovements = <<>>
             /\ resp'.applied = Len(Last(transactions').items)]_vars

-----------------------------------------------------------------------------
(* C20 - the movements of one product chain: of any two consecutive        *)
(* movements of the same product the later one's previousStock is the      *)
(* earlier one's newStock, whichever of updateStock, createTransaction and *)
(* updateProduct ran in between.                                           *)
(* updateProduct writes the stock column without a movement (C9).          *)

ConsecutiveMovementsChain ==
    \A p \in DOMAIN createdStock :
        LET ms == getInventoryMovements(inventoryMovements, p)
        IN  \A k \in 1 .. Len(ms) - 1 : ms[k + 1].previousStock = ms[k].newStock

-----------------------------------------------------------------------------
(* C13 - getSalesAnalytics(period) and getInventoryAlerts() are read-only: *)
(* a step of either leaves the products, the categories, the transactions, *)
(* the movements, the shop settings and the transaction counter as they    *)
(* were.                                                                   *)

ReadOps == {"getSalesAnalytics.await", "getSalesAnalytics", "getInventoryAlerts"}

ReadsAreReadOnly ==
    [][resp'.op \in ReadOps
          => UNCHANGED <<products, categories, transactions, inventoryMovements,
                         shopSettings, transactionCounter>>]_vars

\* getSalesAnalytics has returned, counting a stored sale, over a store
\* whose transactions, movements and settings are no longer the seeded ones
ReadsOverChangedStoreWitness ==
    /\ report.op = "getSalesAnalytics"
    /\ report.itemsSold > 0
    /\ transactions # <<>>
    /\ inventoryMovements # <<>>
    /\ shopSettings # SeedShopSettings

-----------------------------------------------------------------------------
(* C14 - barcode uniqueness: no two distinct stored products share a       *)
(* non-empty barcode.                                                      *)
(* Neither createProduct nor updateProduct looks for the barcode among the *)
(* stored products: both store it.                                         *)

hasBarcode(product) == product.barcode # None /\ product.barcode # Some("")

BarcodesUnique ==
    \A p, q \in DOMAIN products :
        (p # q /\ hasBarcode(products[p]) /\ hasBarcode(products[q]))
            => products[p].barcode # products[q].barcode

-----------------------------------------------------------------------------
(* C15 - in what getInventoryAlerts returns the low_stock and out_of_stock *)
(* buckets are disjoint: a product with stock 0 is in out_of_stock only,   *)
(* one with 0 < stock < minStock (minStock defaulting to 5) in low_stock   *)
(* only.                                                                   *)

\* the ids listed in the alert of the given type, if there is one
Bucket(alerts, type) ==
    UNION {{alerts[a].products[i].id : i \in 1 .. Len(alerts[a].products)} :
              a \in {b \in 1 .. Len(alerts) : alerts[b].type = type}}

MinStockValue(column) == IF column = None \/ column = Some(0) THEN 5 ELSE column[1]

AlertBucketsDisjoint ==
    report.op = "getInventoryAlerts" =>
        LET low == Bucket(report.alerts, "low_stock")
            out == Bucket(report.alerts, "out_of_stock")
        IN  /\ low \cap out = {}
            /\ \A id \in DOMAIN products :
                  LET stock == StockValue(products[id].stock)
                  IN  /\ stock = 0 => (id \in out /\ id \notin low)
                      /\ (0 < stock /\ stock < MinStockValue(products[id].minStock))
                            => (id \in low /\ id \notin out)

\* Colgate (stock 3, minStock 5) is reported low, the created product
\* (stock 0) out of stock
BothBucketsReportedWitness ==
    /\ report.op = "getInventoryAlerts"
    /\ products[3].stock = Some(3)
    /\ 3 \in Bucket(report.alerts, "low_stock")
    /\ 5 \in DOMAIN products
    /\ products[5].stock = Some(0)
    /\ 5 \in Bucket(report.alerts, "out_of_stock")

-----------------------------------------------------------------------------
(* C16 - analytics without sales.                                          *)
(* As stated: with no transaction stored, getSalesAnalytics('daily')       *)
(* returns dailySales 0, itemsSold 0, lowStockItems 0, profitMargin 0, no  *)
(* topCategories, no topProducts and a salesTrend of 7 entries of amount   *)
(* 0, for the seeded store and every catalog reached without a sale.       *)

SalesFieldsAllZero ==
    /\ report.dailySales = 0
    /\ report.itemsSold = 0
    /\ report.profitMargin = <<0, 1>>
    /\ report.topCategories = <<>>
    /\ report.topProducts = <<>>
    /\ Len(report.salesTrend) = 7
    /\ \A n \in 1 .. 7 : report.salesTrend[n].amount = 0

DailyReportWithoutSales ==
    /\ report.op = "getSalesAnalytics"
    /\ report.period = "daily"
    /\ transactions = <<>>

NoSalesReportAllZero ==
    DailyReportWithoutSales => (SalesFieldsAllZero /\ report.lowStockItems = 0)

(* C16, amended - with no transaction stored the sales fields are as       *)
(* stated, and lowStockItems is the number of stored products whose stock  *)
(* is below their minStock (default 5): 2 for the seeded store.            *)

NoSalesReportCountsLowStock ==
    DailyReportWithoutSales =>
        /\ SalesFieldsAllZero
        /\ report.lowStockItems =
               Cardinality({p \in DOMAIN products :
                               StockValue(products[p].stock)
                                   < MinStockValue(products[p].minStock)})
        /\ DOMAIN products = 1 .. Len(SeedProducts) => report.lowStockItems = 2

\* no sale yet, and a created product without stock or minStock counts as
\* the third low-stock item
NoSalesThreeLowStockWitness ==
    /\ DailyReportWithoutSales
    /\ 5 \in DOMAIN products
    /\ products[5].minStock = None
    /\ report.lowStockItems = 3

-----------------------------------------------------------------------------
(* C17 - for every period, salesTrend has 7 entries, oldest first, one per *)
(* day ending today, and each entry's amount is the sum of totalAmount     *)
(* over all the stored transactions created on that day.                   *)
(* The trend is computed from the transactions inside the period's window: *)
(* for 'daily' (and for 'monthly' in a month that has just begun) the      *)
(* sales of the earlier days are missing from it.                          *)

\* the read reads[i], which returns in this step, saw the transactions
\* that are stored now
ReadIsCurrent(i) ==
    /\ reads' = RemoveAt(reads, i)
    /\ report'.period = reads[i].period
    /\ reads[i].transactions =
           getTransactionsByDateRange(transactions,
                                      startDateOf(reads[i].period, reads[i].now),
                                      reads[i].now.day)

StoredSalesOn(day) ==
    LET onDay == SelectSeq(transactions, LAMBDA t : t.createdAt = day)
    IN  SumSeq([k \in 1 .. Len(onDay) |-> onDay[k].totalAmount])

SalesTrendCoversStoredSales ==
    [][resp'.op = "getSalesAnalytics" =>
          \A i \in 1 .. Len(reads) :
              ReadIsCurrent(i) =>
                  /\ Len(report'.salesTrend) = 7
                  /\ \A n \in 1 .. 7 :
                        report'.salesTrend[n].amount
                            = StoredSalesOn(reads[i].now.day - (7 - n))]_vars

-----------------------------------------------------------------------------
(* C18 - when the text-generation collaborator fails, by throwing or by    *)
(* answering with text that does not parse, processAIChatQuery and         *)
(* generateInventoryInsights answer with their static fallback, a message  *)
(* and suggestions; and a chat request changes no stored state.            *)

FailedCompletions ==
    {Completion(TRUE, None), Completion(FALSE, Some("Sorry, I cannot answer that."))}

FallbackOnFailure ==
    /\ (report.op = "chat" /\ report.status = 200
            /\ report.completion \in FailedCompletions)
          => /\ report.body.message
                   = "I'm currently unable to process your request. Please try again later."
             /\ Len(report.body.suggestions) = 3
    /\ (report.op = "insights" /\ report.completion \in FailedCompletions)
          => /\ report.status = 200
             /\ report.body.message
                   = "Unable to generate inventory insights at the moment."
             /\ Len(report.body.suggestions) = 3

ChatChangesNothing ==
    resp'.op \in {"chat", "insights"}
        => UNCHANGED <<products, inventoryMovements, transactions, transactionCounter,
                       calls, categories, shopSettings>>

AssistantFallsBack == []FallbackOnFailure /\ [][ChatChangesNothing]_vars

\* the collaborator answered a chat request with text that is not JSON,
\* over a store with a stored sale
ChatFallbackWitness ==
    /\ report.op = "chat"
    /\ report.status = 200
    /\ report.completion = Completion(FALSE, Some("Sorry, I cannot answer that."))
    /\ report.body = chatFallback
    /\ transactions # <<>>

-----------------------------------------------------------------------------
(* C21 - every stored movement has quantity > 0 and                        *)
(* newStock = previousStock + signedDelta, with signedDelta = +quantity    *)
(* for 'purchase' and -quantity for 'sale', whatever delta updateStock was *)
(* given.                                                                  *)
(* updateStock logs |delta| as the quantity: 0 for a delta of 0, and the   *)
(* whole requested amount when the stock is clamped at 0.                  *)

MovementsPositiveAndExact ==
    \A k \in 1 .. Len(inventoryMovements) :
        LET m == inventoryMovements[k]
        IN  /\ m.quantity > 0
            /\ m.newStock = m.previousStock + SignedDelta(m)

-----------------------------------------------------------------------------
(* C22 - createTransaction fails when a line item references a product     *)
(* whose isActive flag is false: no stock changes and no transaction is    *)
(* stored.                                                                 *)
(* createTransaction and updateStock never read isActive: the sale of an   *)
(* inactive product goes through.                                          *)

\* the call this step has started, if the step has left it suspended
StartedAndSuspended ==
    /\ transactionCounter' # transactionCounter
    /\ resp'.op = "createTransaction.await"

InactiveProductsNotSold ==
    [][StartedAndSuspended =>
          \A k \in 1 .. Len(Last(calls').transaction.items) :
              LET product == productOf(products, Last(calls').transaction.items[k].productId)
              IN  product # None => product[1].isActive # Some(FALSE)]_vars

-----------------------------------------------------------------------------
(* C23 - lowStockItems is the number of active products with               *)
(* stock < minStock, minStock being 5 only when it is unset: an inactive   *)
(* product is not counted, nor is one with an explicit minStock of 0.      *)
(* The code counts every product with (stock || 0) < (minStock || 5).      *)

isCountedLowStock(product) ==
    /\ product.isActive # Some(FALSE)
    /\ StockValue(product.stock)
          < (IF product.minStock = None THEN 5 ELSE product.minStock[1])

LowStockItemsCountsActive ==
    report.op = "getSalesAnalytics" =>
        report.lowStockItems
            = Cardinality({p \in DOMAIN products : isCountedLowStock(products[p])})

-----------------------------------------------------------------------------
(* C24 - topCategories has at most 5 entries, in descending order of       *)
(* amount, and accounts for every item sold in the window: the amounts add *)
(* up to the sum of price * quantity over the window's items, also when an *)
(* item's product has been deleted since.                                  *)
(* An item whose product is no longer stored is skipped: its revenue is in *)
(* no category.                                                            *)

\* the read reads[i] returns in this step
ReadReturns(i) ==
    /\ resp'.op = "getSalesAnalytics"
    /\ reads' = RemoveAt(reads, i)
    /\ report'.period = reads[i].period

ItemRevenueOf(txs) ==
    LET items == itemsOf(txs)
    IN  SumSeq([k \in 1 .. Len(items) |-> items[k].price * items[k].quantity])

TopCategoriesAccountForEveryItem ==
    [][\A i \in 1 .. Len(reads) :
          ReadReturns(i) =>
              LET top == report'.topCategories
              IN  /\ Len(top) <= 5
                  /\ \A k \in 1 .. Len(top) - 1 : top[k].amount >= top[k + 1].amount
                  /\ SumSeq([k \in 1 .. Len(top) |-> top[k].amount])
                        = ItemRevenueOf(reads[i].transactions)]_vars

-----------------------------------------------------------------------------
(* C25 - profitMargin is 0 whenever the revenue of the window is 0, with   *)
(* no transaction in the window or with transactions whose totalAmount is  *)
(* 0 and whose items have a cost; the result of a division by zero is      *)
(* never returned.                                                         *)

ProfitMarginZeroWithoutRevenue ==
    [][\A i \in 1 .. Len(reads) :
          ReadReturns(i) =>
              /\ report'.profitMargin[2] # 0
              /\ totalRevenueOf(reads[i].transactions) = 0
                    => report'.profitMargin[1] = 0]_vars

\* the report covers a sale of 1 Colgate (cost 35.00) discounted to 0.00
ZeroRevenueSaleReportedWitness ==
    /\ report.op = "getSalesAnalytics"
    /\ report.itemsSold = 1
    /\ report.dailySales = 0
    /\ 3 \in DOMAIN products
    /\ report.profitMargin = <<0, 1>>

-----------------------------------------------------------------------------
(* C26 - a transaction is stored only after the stock adjustment and the   *)
(* movement of every one of its items: in every reachable state, those in  *)
(* the middle of running createTransaction calls included, the movements   *)
(* of each stored transaction's items are in the log, in item order.       *)

\* the movement updateStock(item.productId, -item.quantity) appends
IsMovementOf(m, item) ==
    /\ m.productId = item.productId
    /\ m.quantity = Abs(item.quantity)
    /\ m.type = IF item.quantity < 0 THEN "purchase" ELSE "sale"

\* the items have their movements in `movs`, in the items' order
RECURSIVE Embeds(_, _)
Embeds(items, movs) ==
    IF items = <<>> THEN TRUE
    ELSE IF movs = <<>> THEN FALSE
    ELSE IF IsMovementOf(Head(movs), Head(items)) THEN Embeds(Tail(items), Tail(movs))
    ELSE Embeds(items, Tail(movs))

StoredAfterAllMovements ==
    /\ \A i \in 1 .. Len(transactions) : Embeds(transactions[i].items, inventoryMovements)
    /\ Len(inventoryMovements)
          >= Len(itemsOf(transactions))
                + SumSeq([i \in 1 .. Len(calls) |-> calls[i].applied])
    /\ \A i \in 1 .. Len(calls), j \in 1 .. Len(transactions) :
          calls[i].transaction.transactionNumber # transactions[j].transactionNumber

\* a two-item transaction is stored, and a restock ran between the
\* movements of its two items
StoredAroundInterleavedUpdateWitness ==
    /\ Len(transactions) = 1
    /\ Len(transactions[1].items) = 2
    /\ Len(inventoryMovements) = 3
    /\ inventoryMovements[2].type = "purchase"
    /\ IsMovementOf(inventoryMovements[1], transactions[1].items[1])
    /\ IsMovementOf(inventoryMovements[3], transactions[1].items[2])

-----------------------------------------------------------------------------
(* C27 - the transaction counter advances once per createTransaction call, *)
(* stored or not: transactionCounter - 1 is the number of calls started    *)
(* and is at least the number of stored transactions, whose numbers may    *)
(* have gaps.                                                              *)

CounterCountsCalls ==
    /\ transactionCounter - 1 = Len(started)
    /\ transactionCounter - 1 >= Len(transactions)

\* the first call failed and the second is stored: TXN0001 is a gap
NumberGapWitness ==
    /\ calls = <<>>
    /\ transactionCounter = 3
    /\ Len(transactions) = 1
    /\ Number(DigitsOf(transactions[1].transactionNumber)) = 2

-----------------------------------------------------------------------------
(* C28 - syncPendingOperations is mutually exclusive and always releases   *)
(* its guard: at most one sync loop runs at any time, whether the 'online' *)
(* event, the timer or the application calls it; a call made while a sync  *)
(* is in progress or while offline returns without sending a request; and  *)
(* syncInProgress is false again once the run has finished, failed and     *)
(* thrown requests included.                                               *)

OneSyncLoop ==
    /\ Len(runs) <= 1
    /\ syncInProgress <=> runs # <<>>

SyncTriggers == {"online", "timer", "syncPendingOperations"}

GuardedCallSendsNothing ==
    (event'.op \in SyncTriggers /\ (syncInProgress \/ ~online'))
        => /\ event'.sent = 0
           /\ UNCHANGED <<queue, runs, syncInProgress>>

SyncMutuallyExclusive == []OneSyncLoop /\ [][GuardedCallSendsNothing]_vars

\* the application called syncPendingOperations while a run was waiting
\* for a response with the device offline: the call returned at the guard
SyncCallDuringRunWitness ==
    /\ event.op = "syncPendingOperations"
    /\ event.outcome = "returned"
    /\ syncInProgress
    /\ Len(runs) = 1
    /\ ~online

-----------------------------------------------------------------------------
(* C29 - no queued operation is lost: an item leaves the queue only by     *)
(* clearQueue or after its own request returned an ok response; items      *)
(* whose request failed or threw, items queued while a sync is running and *)
(* other items queued in the same millisecond as a synced one stay.        *)
(* removeFromQueue filters by id, and the id is the millisecond: every     *)
(* item queued in the millisecond of the synced one is removed with it.    *)

\* the step handled an ok response to the request of `item`
SyncedInStep(item) ==
    /\ event'.op = "fetch"
    /\ event'.outcome = "ok"
    /\ event'.item = item.data

NoQueuedOperationLost ==
    [][\A k \in 1 .. Len(queue) :
          (event'.op # "clearQueue" /\ ~SyncedInStep(queue[k]))
              => \E j \in 1 .. Len(queue') : queue'[j] = queue[k]]_vars

-----------------------------------------------------------------------------
(* C30 - Billing's cart: after any sequence of addToCart, updateQuantity   *)
(* and removeFromCart the cart holds at most one entry per product id and  *)
(* every entry's quantity q satisfies 1 <= q <= the stock of the product   *)
(* snapshot the entry holds; addToCart of a product with stock <= 0 leaves *)
(* the cart unchanged.                                                     *)
(* addToCart compares the quantity with the stock of the product it is     *)
(* handed, not with the stock of the snapshot the entry keeps.             *)

CartWithinSnapshotStock ==
    /\ \A i, j \in 1 .. Len(cart) : i # j => cart[i].product.id # cart[j].product.id
    /\ \A k \in 1 .. Len(cart) :
          /\ 1 <= cart[k].quantity
          /\ cart[k].quantity <= StockValue(cart[k].product.stock)

OutOfStockNotAdded ==
    (event'.op = "addToCart" /\ event'.item \in DOMAIN products
        /\ StockValue(products[event'.item].stock) <= 0)
            => UNCHANGED cart

CartInvariant == []CartWithinSnapshotStock /\ [][OutOfStockNotAdded]_vars

====
